---- MODULE Spec2Model ----
(***************************************************************************)
(* Sales CRM (src/main.py): two relations, contacts and activities, in a   *)
(* SQLite store reached through SQLAlchemy ORM sessions, the seeding that  *)
(* on_startup runs, and the FastAPI handlers that read and write the       *)
(* store.  A handler runs in a worker thread with a session of its own, so *)
(* its query, its attribute assignments and its commit are separate steps  *)
(* that other threads' steps may come between.                             *)
(***************************************************************************)
EXTENDS Integers, Sequences, FiniteSets, TLC

VARIABLES
    contacts,     \* table contacts: id -> row                    (main.py 28-40)
    activities,   \* table activities: id -> row                  (main.py 42-50)
    clock,        \* number of datetime.utcnow() readings so far
    seeder,       \* per process: the position of on_startup/seed_data
    nstart,       \* process starts so far
    pc,           \* per worker thread: position in its handler
    req,          \* per worker thread: the request being (or last) handled
    session,      \* per worker thread: the ORM session's loaded object
    resp,         \* per worker thread: the last response
    nreq          \* operations issued so far

vars == <<contacts, activities, clock, seeder, nstart,
          pc, req, session, resp, nreq>>

\* ---------------------------------------------------------------- bounds
MaxStartups == 2
MaxRequests == 3

\* -------------------------------------------------------------- constants
NULL == "<NULL>"      \* Python None / SQL NULL

Procs == {"p1", "p2"}
Threads == {"t1", "t2"}

\* grouped = {"Lead": [], "Contacted": [], "Proposal": [], "Closed": []}
CanonicalStatuses == {"Lead", "Contacted", "Proposal", "Closed"}

\* initial_contacts of seed_data
initial_contacts ==
    << [name |-> "Alice Johnson", email |-> "alice@techcorp.com", company |-> "TechCorp",
        status |-> "Lead", intel |-> "Expanding to Europe next Q."],
       [name |-> "Bob Smith", email |-> "bob@startups.inc", company |-> "Startups Inc",
        status |-> "Contacted", intel |-> "Considering competitor X due to pricing."],
       [name |-> "Charlie Brown", email |-> "charlie@enterprise.global", company |-> "Enterprise Global",
        status |-> "Proposal", intel |-> "Budget approval pending board meeting."],
       [name |-> "Diana Prince", email |-> "diana@amazonia.net", company |-> "Amazonia",
        status |-> "Closed", intel |-> "Long-term contract signed."],
       [name |-> "Evan Wright", email |-> "evan@logistics.co", company |-> "Logistics Co",
        status |-> "Lead", intel |-> "Looking for fleet management solutions."],
       [name |-> "Fiona Green", email |-> "fiona@ecofriendly.org", company |-> "EcoFriendly",
        status |-> "Contacted", intel |-> "Grant funding secured recently."],
       [name |-> "George King", email |-> "george@royal.ltd", company |-> "Royal Ltd",
        status |-> "Proposal", intel |-> "Competitor Y offering 20% discount."],
       [name |-> "Hannah White", email |-> "hannah@medical.care", company |-> "Medical Care",
        status |-> "Closed", intel |-> "Needs HIPAA compliance features."],
       [name |-> "Ian Black", email |-> "ian@construction.works", company |-> "Construction Works",
        status |-> "Lead", intel |-> "New project starting in downtown."],
       [name |-> "Jane Doe", email |-> "jane@unknown.net", company |-> "Unknown Net",
        status |-> "Contacted", intel |-> "Skeptical about cloud deployment."] >>

\* ------------------------------------------------------------ the store
\* the largest element of a finite set of positive integers, 0 if none
MaxOf(S) ==
    LET n == Cardinality(S)
    IN IF S = 1..n THEN n ELSE CHOOSE x \in S : \A y \in S : y <= x

\* Column(Integer, primary_key=True) on SQLite is a rowid alias without
\* AUTOINCREMENT: an INSERT takes the largest id in the table plus one.
NextId(table) == MaxOf(DOMAIN table) + 1

\* (a table whose ids are 1..n is a sequence, and the new row is appended)
Insert(table, row) ==
    LET id == NextId(table)
    IN IF DOMAIN table = 1..(id - 1)
       THEN Append(table, row)
       ELSE [k \in DOMAIN table \cup {id} |->
               IF k \in DOMAIN table THEN table[k] ELSE row]

\* the rows of a table in rowid order, each with its id (query(...).all())
RECURSIVE ScanFrom(_, _)
ScanFrom(table, ids) ==
    IF ids = {} THEN << >>
    ELSE LET k == CHOOSE i \in ids : \A j \in ids : i <= j
         IN << [id |-> k, row |-> table[k]] >> \o ScanFrom(table, ids \ {k})

ScanAll(table) == ScanFrom(table, DOMAIN table)

\* db.query(Contact).first()
\* (a query result is << >> for None, or << object >>)
QueryFirst(table) == IF DOMAIN table = {} THEN << >> ELSE << ScanAll(table)[1] >>

\* db.query(Contact).filter(Contact.id == contact_id).first()
QueryById(table, id) ==
    IF id \in DOMAIN table THEN << [id |-> id, row |-> table[id]] >> ELSE << >>

\* datetime.datetime.utcnow() - back
Timestamp(reading, back) == [at |-> reading, back |-> back]
NoDays == << >>

\* ------------------------------------------------------------- seeding
\* timedelta(days=int(10 * (hash(data["name"]) % 10) / 10 + 1)): hash() of a
\* string is salted per interpreter, so the term is kept by its argument
BackdateDays(name) == << "days", name >>

SeedContact(data, reading) ==
    [name |-> data.name, email |-> data.email, phone |-> "555-0100",
     company |-> data.company, status |-> data.status,
     competitive_intel |-> data.intel,
     created_at |-> Timestamp(reading, BackdateDays(data.name))]

SeedDescription(status) == <<"Initial contact created via ", status, " campaign.">>

\* (as SeedActivity, with the description built from the wrong key)
SeedActivityByName(contact_id, data, reading) ==
    [contact_id |-> contact_id, description |-> SeedDescription(data.name),
     timestamp |-> Timestamp(reading, NoDays)]

\* Activity(contact_id=contact.id, description=f"Initial ...", timestamp=utcnow())
SeedActivity(contact_id, data, reading) ==
    [contact_id |-> contact_id, description |-> SeedDescription(data.status),
     timestamp |-> Timestamp(reading, NoDays)]

\* session.commit() of the pending Activity objects, in the order added
RECURSIVE FlushActivities(_, _)
FlushActivities(table, pending) ==
    IF pending = << >> THEN table
    ELSE FlushActivities(Insert(table, Head(pending)), Tail(pending))

NoReq == [op |-> "none"]
NoSession == [loaded |-> << >>]
NoResp == [code |-> 0]

IdleSeeder == [pc |-> "stopped", i |-> 0, first |-> << >>, pending |-> << >>]

\* on_startup: create_all, SessionLocal(), then seed_data(db)
on_startup(p) ==
    /\ seeder[p].pc \in {"stopped", "returned", "seeded"}
    /\ nstart < MaxStartups
    /\ \A t \in Threads : pc[t] = "idle"
    /\ seeder' = [seeder EXCEPT ![p] = [IdleSeeder EXCEPT !.pc = "check"]]
    /\ nstart' = nstart + 1
    /\ req' = [t \in Threads |-> NoReq]
    /\ resp' = [t \in Threads |-> NoResp]
    /\ UNCHANGED <<contacts, activities, clock, pc, session, nreq>>

\* (as SeedProceeds, without the early return)
SeedAlways(first) == TRUE

\* if db.query(Contact).first(): return
SeedProceeds(first) == first = << >>

seed_check(p) ==
    /\ seeder[p].pc = "check"
    /\ LET first == QueryFirst(contacts)
       IN seeder' = [seeder EXCEPT ![p] =
                       [@ EXCEPT !.first = IF SeedProceeds(first) THEN first ELSE << >>,
                                 !.pc = IF SeedProceeds(first) THEN "loop" ELSE "returned",
                                 !.i = IF SeedProceeds(first) THEN 1 ELSE 0]]
    /\ UNCHANGED <<contacts, activities, clock, nstart, pc, req, session, resp, nreq>>

\* one iteration of `for data in initial_contacts`: the commit inserts the
\* new contact and flushes the activity the previous iteration added
seed_insert(p) ==
    /\ seeder[p].pc = "loop"
    /\ LET i == seeder[p].i
           data == initial_contacts[i]
           contact == SeedContact(data, clock)
           cid == NextId(contacts)
           activity == SeedActivity(cid, data, clock + 1)
       IN /\ contacts' = Insert(contacts, contact)
          /\ activities' = FlushActivities(activities, seeder[p].pending)
          /\ seeder' = [seeder EXCEPT ![p] =
                          [@ EXCEPT !.pending = << activity >>,
                                    !.i = i + 1,
                                    !.pc = IF i = Len(initial_contacts)
                                           THEN "commit" ELSE "loop"]]
    /\ clock' = clock + 2
    /\ UNCHANGED <<nstart, pc, req, session, resp, nreq>>

\* the db.commit() after the loop
seed_commit(p) ==
    /\ seeder[p].pc = "commit"
    /\ activities' = FlushActivities(activities, seeder[p].pending)
    /\ seeder' = [seeder EXCEPT ![p] = [IdleSeeder EXCEPT !.pc = "seeded"]]
    /\ UNCHANGED <<contacts, clock, nstart, pc, req, session, resp, nreq>>

seed_data(p) == seed_check(p) \/ seed_insert(p) \/ seed_commit(p)

Seeding(p) == seeder[p].pc \in {"check", "loop", "commit"}

Init ==
    /\ contacts = << >>
    /\ activities = << >>
    /\ clock = 0
    /\ seeder = [p \in Procs |-> IdleSeeder]
    /\ nstart = 0
    /\ pc = [t \in Threads |-> "idle"]
    /\ req = [t \in Threads |-> NoReq]
    /\ session = [t \in Threads |-> NoSession]
    /\ resp = [t \in Threads |-> NoResp]
    /\ nreq = 0

\* ------------------------------------------------------------ requests
\* form submissions (the strings a client posts; NULL is a field left out)
TestUserForm ==
    [name |-> "Test User", email |-> "t@example.com", phone |-> NULL,
     company |-> "Acme", status |-> "Lead", competitive_intel |-> NULL]

RequiredOnlyForm ==
    [name |-> "Test User", email |-> "t@example.com", phone |-> NULL,
     company |-> NULL, status |-> NULL, competitive_intel |-> NULL]

AliceForm ==
    [name |-> initial_contacts[1].name, email |-> initial_contacts[1].email,
     phone |-> "555-0100", company |-> initial_contacts[1].company,
     status |-> initial_contacts[1].status,
     competitive_intel |-> initial_contacts[1].intel]

Forms ==
    { TestUserForm,
      RequiredOnlyForm,
      [TestUserForm EXCEPT !.email = NULL],
      [AliceForm EXCEPT !.name = "Alice Smith"],
      [AliceForm EXCEPT !.status = "Archived"] }

Descriptions == {"Called, left voicemail", "Sent proposal"}

\* contact ids a request may name: the first seeded contact's, and the id
\* that the first contact created after the seeding gets (no contact's
\* until then)
RequestIds == {1, Len(initial_contacts) + 1}

\* the process has started and its seeding is over
Serving == nstart >= 1 /\ \A p \in Procs : ~Seeding(p)

Accept(t) == pc[t] = "idle" /\ Serving /\ nreq < MaxRequests

Redirect(url) == [code |-> 303, location |-> url]
NotFound == [code |-> 404, detail |-> "Contact not found"]
Unprocessable == [code |-> 422]
ServerError == [code |-> 500]

\* create_contact's parameters: name, email = Form(...); status = Form("Lead")
CreateFormValid(form) == form.name /= NULL /\ form.email /= NULL
CreateFormFields(form) ==
    [form EXCEPT !.status = IF form.status = NULL THEN "Lead" ELSE form.status]

\* update_contact's parameters: name, email, status = Form(...)
UpdateFormValid(form) == form.name /= NULL /\ form.email /= NULL /\ form.status /= NULL

\* Contact(name=..., ..., competitive_intel=...); created_at by column default
NewContact(fields, reading) ==
    [name |-> fields.name, email |-> fields.email, phone |-> fields.phone,
     company |-> fields.company, status |-> fields.status,
     competitive_intel |-> fields.competitive_intel,
     created_at |-> Timestamp(reading, NoDays)]

create_contact(t, form) ==
    /\ Accept(t)
    /\ nreq' = nreq + 1
    /\ req' = [req EXCEPT ![t] = [op |-> "create_contact", form |-> form]]
    /\ IF CreateFormValid(form)
       THEN /\ contacts' = Insert(contacts, NewContact(CreateFormFields(form), clock))
            /\ clock' = clock + 1
            /\ resp' = [resp EXCEPT ![t] = Redirect(<<"/contacts">>)]
       ELSE /\ resp' = [resp EXCEPT ![t] = Unprocessable]
            /\ UNCHANGED <<contacts, clock>>
    /\ UNCHANGED <<activities, seeder, nstart, pc, session>>

\* contact.activities: the activities whose contact_id is the contact's id
ActivitiesOf(table, contact_id) ==
    SelectSeq(ScanAll(table), LAMBDA a : a.row.contact_id = contact_id)

\* edit_contact: the contact and, through the relationship, its activities
edit_contact(t, contact_id) ==
    /\ Accept(t)
    /\ nreq' = nreq + 1
    /\ req' = [req EXCEPT ![t] = [op |-> "edit_contact", contact_id |-> contact_id]]
    /\ LET contact == QueryById(contacts, contact_id)
       IN resp' = [resp EXCEPT ![t] =
                     IF contact = << >> THEN NotFound
                     ELSE [code |-> 200, contact |-> contact[1],
                           activities |-> ActivitiesOf(activities, contact[1].id)]]
    /\ UNCHANGED <<contacts, activities, clock, seeder, nstart, pc, session>>

\* update_contact up to the 404: the query
update_query(t, contact_id, form) ==
    /\ Accept(t)
    /\ nreq' = nreq + 1
    /\ req' = [req EXCEPT ![t] = [op |-> "update_contact", contact_id |-> contact_id,
                                  form |-> form]]
    /\ LET contact == QueryById(contacts, contact_id)
       IN IF ~UpdateFormValid(form)
          THEN /\ resp' = [resp EXCEPT ![t] = Unprocessable]
               /\ UNCHANGED <<pc, session>>
          ELSE IF contact = << >>
          THEN /\ resp' = [resp EXCEPT ![t] = NotFound]
               /\ UNCHANGED <<pc, session>>
          ELSE /\ session' = [session EXCEPT ![t] =
                                [loaded |-> contact, object |-> contact[1].row]]
               /\ pc' = [pc EXCEPT ![t] = "update_assign"]
               /\ resp' = [resp EXCEPT ![t] = NoResp]
    /\ UNCHANGED <<contacts, activities, clock, seeder, nstart>>

\* (as AssignFields, written as a partial patch: a field left out keeps
\* its value)
AssignFieldsPatch(object, form) ==
    [f \in DOMAIN object |->
        IF f \in DOMAIN form /\ form[f] /= NULL THEN form[f] ELSE object[f]]

\* contact.name = name ... contact.competitive_intel = competitive_intel
AssignFields(object, form) ==
    [object EXCEPT !.name = form.name, !.email = form.email, !.phone = form.phone,
                   !.company = form.company, !.status = form.status,
                   !.competitive_intel = form.competitive_intel]

update_assign(t) ==
    /\ pc[t] = "update_assign"
    /\ session' = [session EXCEPT ![t].object = AssignFields(@, req[t].form)]
    /\ pc' = [pc EXCEPT ![t] = "update_commit"]
    /\ UNCHANGED <<contacts, activities, clock, seeder, nstart, req, resp, nreq>>

\* The flush of a modified object: the unit of work issues
\* UPDATE contacts SET <the columns whose value differs from the one loaded>
\* WHERE id = <the object's id>; a column assigned the value it was loaded
\* with is not part of the statement.
FlushUpdate(row, loaded, object) ==
    [f \in DOMAIN row |-> IF object[f] /= loaded[f] THEN object[f] ELSE row[f]]

\* db.commit() of update_contact
update_commit(t) ==
    /\ pc[t] = "update_commit"
    /\ LET id == session[t].loaded[1].id
           loaded == session[t].loaded[1].row
           object == session[t].object
       IN IF object = loaded
          THEN /\ resp' = [resp EXCEPT ![t] = Redirect(<<"/contacts/", id>>)]
               /\ UNCHANGED contacts
          ELSE IF id \in DOMAIN contacts
          THEN /\ contacts' = [contacts EXCEPT ![id] = FlushUpdate(@, loaded, object)]
               /\ resp' = [resp EXCEPT ![t] = Redirect(<<"/contacts/", id>>)]
          ELSE \* the UPDATE matches no row: StaleDataError
               /\ resp' = [resp EXCEPT ![t] = ServerError]
               /\ UNCHANGED contacts
    /\ pc' = [pc EXCEPT ![t] = "idle"]
    /\ session' = [session EXCEPT ![t] = NoSession]
    /\ UNCHANGED <<activities, clock, seeder, nstart, req, nreq>>

\* (as AddActivityLookup, taking the path's id without looking it up)
AddActivityNoLookup(table, contact_id) == << [id |-> contact_id] >>

\* contact = db.query(Contact).filter(Contact.id == contact_id).first()
AddActivityLookup(table, contact_id) == QueryById(table, contact_id)

\* add_activity up to the 404: the query
add_activity_query(t, contact_id, description) ==
    /\ Accept(t)
    /\ nreq' = nreq + 1
    /\ req' = [req EXCEPT ![t] = [op |-> "add_activity", contact_id |-> contact_id,
                                  description |-> description]]
    /\ LET contact == AddActivityLookup(contacts, contact_id)
       IN IF contact = << >>
          THEN /\ resp' = [resp EXCEPT ![t] = NotFound]
               /\ UNCHANGED <<pc, session>>
          ELSE /\ session' = [session EXCEPT ![t] = [loaded |-> contact]]
               /\ pc' = [pc EXCEPT ![t] = "activity_commit"]
               /\ resp' = [resp EXCEPT ![t] = NoResp]
    /\ UNCHANGED <<contacts, activities, clock, seeder, nstart>>

\* (as NewActivity, with the description not passed on)
NewActivityNoDescription(contact, description, reading) ==
    [contact_id |-> contact.id, description |-> NULL,
     timestamp |-> Timestamp(reading, NoDays)]

\* Activity(contact_id=contact.id, description=description); timestamp by default
NewActivity(contact, description, reading) ==
    [contact_id |-> contact.id, description |-> description,
     timestamp |-> Timestamp(reading, NoDays)]

\* db.add(activity); db.commit(): the store does not enforce the foreign key
\* (SQLite without PRAGMA foreign_keys), so the INSERT never fails on it
add_activity_commit(t) ==
    /\ pc[t] = "activity_commit"
    /\ activities' = Insert(activities,
                            NewActivity(session[t].loaded[1], req[t].description, clock))
    /\ clock' = clock + 1
    /\ resp' = [resp EXCEPT ![t] = Redirect(<<"/contacts/", req[t].contact_id>>)]
    /\ pc' = [pc EXCEPT ![t] = "idle"]
    /\ session' = [session EXCEPT ![t] = NoSession]
    /\ UNCHANGED <<contacts, seeder, nstart, req, nreq>>

\* (as GroupAppend, with the membership test replaced by a setdefault)
GroupAppendAnyKey(grouped, c) ==
    [s \in DOMAIN grouped \cup {c.row.status} |->
        IF s = c.row.status
        THEN Append(IF s \in DOMAIN grouped THEN grouped[s] ELSE << >>, c)
        ELSE grouped[s]]

\* kanban_board: grouped[c.status].append(c) if c.status in grouped
GroupAppend(grouped, c) ==
    IF c.row.status \in DOMAIN grouped
    THEN [grouped EXCEPT ![c.row.status] = Append(@, c)]
    ELSE grouped

RECURSIVE GroupLoop(_, _)
GroupLoop(rows, grouped) ==
    IF rows = << >> THEN grouped
    ELSE GroupLoop(Tail(rows), GroupAppend(grouped, Head(rows)))

contacts_by_status(table) ==
    GroupLoop(ScanAll(table), [s \in CanonicalStatuses |-> << >>])

kanban_board(t) ==
    /\ Accept(t)
    /\ nreq' = nreq + 1
    /\ req' = [req EXCEPT ![t] = [op |-> "kanban_board"]]
    /\ resp' = [resp EXCEPT ![t] =
                  [code |-> 200, contacts_by_status |-> contacts_by_status(contacts)]]
    /\ UNCHANGED <<contacts, activities, clock, seeder, nstart, pc, session>>

\* (as CascadeDelete, for a relationship declared without the cascade)
CascadeKeepsActivities(table, contact_id) == table

\* relationship(..., cascade="all, delete-orphan"): deleting a Contact
\* through a session deletes the activities of its collection with it
CascadeDelete(table, contact_id) ==
    [k \in {a \in DOMAIN table : table[a].contact_id /= contact_id} |-> table[k]]

delete_contact(contact_id) ==
    /\ Serving
    /\ nreq < MaxRequests
    /\ contact_id \in DOMAIN contacts
    /\ nreq' = nreq + 1
    /\ contacts' = [k \in DOMAIN contacts \ {contact_id} |-> contacts[k]]
    /\ activities' = CascadeDelete(activities, contact_id)
    /\ UNCHANGED <<clock, seeder, nstart, pc, req, session, resp>>

Handler(t) ==
    \/ \E form \in Forms : create_contact(t, form)
    \/ \E id \in RequestIds : edit_contact(t, id)
    \/ \E id \in RequestIds, form \in Forms : update_query(t, id, form)
    \/ update_assign(t)
    \/ update_commit(t)
    \/ \E id \in RequestIds, d \in Descriptions : add_activity_query(t, id, d)
    \/ add_activity_commit(t)
    \/ kanban_board(t)

AllIdle == \A u \in Threads : pc[u] = "idle"

MainProc == "p1"
MainThread == "t1"

\* the process starts, and may later be stopped and started again
Startup ==
    \/ ~Seeding(MainProc) /\ on_startup(MainProc)
    \/ seed_data(MainProc)

\* one process, one operation at a time
Next ==
    \/ Startup
    \/ Handler(MainThread)
    \/ \E id \in RequestIds : AllIdle /\ delete_contact(id)

Spec == Init /\ [][Next]_vars

\* requests of the worker threads interleave
NextConc ==
    \/ Startup
    \/ \E t \in Threads : Handler(t)
    \/ \E id \in RequestIds : delete_contact(id)

SpecConc == Init /\ [][NextConc]_vars

\* two processes start at once on one store; no request is served meanwhile
NextRace ==
    \E p \in Procs :
        \/ seeder[p].pc = "stopped" /\ on_startup(p)
        \/ seed_data(p)

SpecRace == Init /\ [][NextRace]_vars

\* ================================================================ claims
FourStatuses == {"Lead", "Contacted", "Proposal", "Closed"}

Occurrences(bucket, id) == Cardinality({i \in DOMAIN bucket : bucket[i].id = id})

RECURSIVE SumLen(_, _)
SumLen(g, keys) ==
    IF keys = {} THEN 0
    ELSE LET k == CHOOSE x \in keys : TRUE
         IN Len(g[k]) + SumLen(g, keys \ {k})

\* C1: the kanban grouping of the stored contacts has exactly the four
\* canonical keys; a stored contact occurs once in the bucket named by its
\* status and in no other bucket (so a contact of any other status occurs in
\* none); every bucket entry is a stored contact; and the bucket sizes add up
\* to the number of stored contacts whose status is canonical.
C1_KanbanGrouping ==
    LET g == contacts_by_status(contacts)
    IN /\ DOMAIN g = FourStatuses
       /\ \A s \in DOMAIN g : \A i \in DOMAIN g[s] :
             /\ g[s][i].id \in DOMAIN contacts
             /\ g[s][i].row = contacts[g[s][i].id]
       /\ \A id \in DOMAIN contacts : \A s \in DOMAIN g :
             Occurrences(g[s], id) = IF contacts[id].status = s THEN 1 ELSE 0
       /\ SumLen(g, DOMAIN g) =
             Cardinality({id \in DOMAIN contacts : contacts[id].status \in FourStatuses})

\* a board was rendered from a store holding a contact of a status that is
\* none of the four, beside contacts that are in buckets
C1_Witness ==
    \E t \in Threads :
        /\ req[t].op = "kanban_board"
        /\ resp[t].code = 200
        /\ resp[t].contacts_by_status = contacts_by_status(contacts)
        /\ \E id \in DOMAIN contacts : contacts[id].status \notin FourStatuses
        /\ \E s \in FourStatuses : resp[t].contacts_by_status[s] /= << >>

\* the store holds exactly the fixture set: ten contacts, ids in fixture
\* order, each with one activity
ExactlyFixtures ==
    /\ DOMAIN contacts = 1..Len(initial_contacts)
    /\ \A i \in 1..Len(initial_contacts) :
          /\ contacts[i].name = initial_contacts[i].name
          /\ contacts[i].email = initial_contacts[i].email
          /\ contacts[i].phone = "555-0100"
          /\ contacts[i].company = initial_contacts[i].company
          /\ contacts[i].status = initial_contacts[i].status
          /\ contacts[i].competitive_intel = initial_contacts[i].intel
    /\ DOMAIN activities = 1..Len(initial_contacts)
    /\ \A i \in 1..Len(initial_contacts) : activities[i].contact_id = i

SeedRunOver(p) == seeder[p].pc \in {"seeded", "returned"}

\* C2: as long as only seed_data has run (any number of times, one run after
\* another, from the empty store), a completed run leaves exactly the ten
\* fixture contacts; and a run whose check finds a contact returns at once
\* with both tables as they were.
C2_SeedIdempotent ==
    /\ [](nreq = 0 /\ SeedRunOver(MainProc) => ExactlyFixtures)
    /\ [][\A p \in Procs :
            seeder[p].pc = "check" /\ DOMAIN contacts /= {}
            => seeder'[p].pc = "returned" /\ contacts' = contacts
               /\ activities' = activities]_vars

\* a second run has completed on the seeded store
C2_Witness ==
    /\ nstart = 2
    /\ nreq = 0
    /\ seeder[MainProc].pc = "returned"
    /\ Cardinality(DOMAIN contacts) = Len(initial_contacts)

\* C3: add_activity for an id that no stored contact has answers 404 and
\* leaves both tables as they were.
C3_AddActivityNotFound ==
    [][\A t \in Threads, id \in RequestIds, d \in Descriptions :
          id \notin DOMAIN contacts /\ add_activity_query(t, id, d)
          => /\ resp'[t].code = 404
             /\ pc'[t] = "idle"
             /\ contacts' = contacts
             /\ activities' = activities]_vars

C3_Witness ==
    \E t \in Threads :
        /\ req[t].op = "add_activity"
        /\ pc[t] = "idle"
        /\ resp[t].code = 404
        /\ req[t].contact_id \notin DOMAIN contacts
        /\ DOMAIN activities /= {}

C5_UpdateFullReplace ==
    [][\A t \in Threads :
          pc[t] = "update_commit" /\ pc'[t] = "idle" /\ resp'[t].code = 303
          => LET id == req[t].contact_id
                 got == QueryById(contacts', id)
             IN /\ got /= << >>
                /\ got[1].id = id
                /\ \A f \in {"name", "email", "phone", "company", "status",
                             "competitive_intel"} :
                      got[1].row[f] = req[t].form[f]
                /\ got[1].row.created_at = contacts[id].created_at
                /\ DOMAIN contacts' = DOMAIN contacts]_vars

\* the first seeded contact was updated with a form that leaves phone and
\* intel out, and now has neither
C5_Witness ==
    \E t \in Threads :
        /\ req[t].op = "update_contact"
        /\ pc[t] = "idle"
        /\ resp[t].code = 303
        /\ req[t].contact_id = 1
        /\ req[t].form = TestUserForm
        /\ 1 \in DOMAIN contacts
        /\ contacts[1].phone = NULL
        /\ contacts[1].competitive_intel = NULL
        /\ contacts[1].name = "Test User"

\* C6: every stored contact's status is one of Lead, Contacted, Proposal,
\* Closed.
C6_StatusCanonical ==
    \A id \in DOMAIN contacts : contacts[id].status \in FourStatuses

\* C7: when two update_contact requests on one contact, the only operations
\* issued, have both committed, the contact's six mutable fields are the
\* field set one of the two submitted.
C7_LastWriteWins ==
    \A id \in DOMAIN contacts :
        ( /\ nreq = Cardinality(Threads)
          /\ \A t \in Threads :
                /\ pc[t] = "idle"
                /\ req[t].op = "update_contact"
                /\ req[t].contact_id = id
                /\ resp[t].code = 303 )
        => \E t \in Threads :
              \A f \in {"name", "email", "phone", "company", "status",
                        "competitive_intel"} :
                 contacts[id][f] = req[t].form[f]

\* C8: the commit of add_activity adds one activity, with the request's
\* contact id and description, and changes no contact and no other
\* activity; for a contact that had no activity, looking the contact up then
\* shows exactly that one.
C8_AddActivityFrame ==
    [][\A t \in Threads :
          pc[t] = "activity_commit" /\ pc'[t] = "idle"
          => LET n == req[t].contact_id
                 d == req[t].description
                 added == DOMAIN activities' \ DOMAIN activities
             IN /\ contacts' = contacts
                /\ resp'[t].code = 303
                /\ Cardinality(added) = 1
                /\ DOMAIN activities \subseteq DOMAIN activities'
                /\ \A b \in DOMAIN activities : activities'[b] = activities[b]
                /\ \A a \in added : /\ activities'[a].contact_id = n
                                    /\ activities'[a].description = d
                /\ ActivitiesOf(activities, n) = << >>
                   => /\ Len(ActivitiesOf(activities', n)) = 1
                      /\ ActivitiesOf(activities', n)[1].row.description = d]_vars

\* the scenario: a contact created as Test User, given one activity, and
\* then looked up
C8_Witness ==
    \E t \in Threads :
        /\ req[t].op = "edit_contact"
        /\ resp[t].code = 200
        /\ resp[t].contact.id = Len(initial_contacts) + 1
        /\ resp[t].contact.row.name = "Test User"
        /\ resp[t].contact.row.company = "Acme"
        /\ Len(resp[t].activities) = 1
        /\ resp[t].activities[1].row.description = "Called, left voicemail"
        /\ resp[t].activities[1].row.contact_id = Len(initial_contacts) + 1

\* the seed_data runs that found the store empty and went on to insert
PassedCheck ==
    {p \in Procs : \/ seeder[p].pc = "seeded"
                   \/ seeder[p].pc \in {"loop", "commit"} /\ seeder[p].first = << >>}

\* C9: with two seed_data runs interleaved, the store holds at most ten
\* contacts for every run that found it empty: more than ten (up to twenty)
\* only when both runs passed the check, and never when one of them found a
\* contact.
C9_SeedRace ==
    Cardinality(DOMAIN contacts) <= Len(initial_contacts) * Cardinality(PassedCheck)

\* both runs have inserted the whole fixture set
C9_Witness ==
    /\ Cardinality(DOMAIN contacts) = 2 * Len(initial_contacts)
    /\ \A p \in Procs : seeder[p].pc = "seeded"

ActivityIdsOf(contact_id) ==
    {a \in DOMAIN activities : activities[a].contact_id = contact_id}

\* C10: while only seed_data has run, every contact has at most one
\* activity, only the contact inserted last may have none, and once the run
\* is over each of the ten contacts has exactly one, whose description is
\* "Initial contact created via {status} campaign." with its own status.
C10_SeedActivities ==
    nreq = 0 =>
        /\ \A c \in DOMAIN contacts : Cardinality(ActivityIdsOf(c)) <= 1
        /\ \A c \in DOMAIN contacts :
              ActivityIdsOf(c) = {} => \A k \in DOMAIN contacts : k <= c
        /\ Cardinality(DOMAIN contacts) - Cardinality(DOMAIN activities) \in {0, 1}
        /\ SeedRunOver(MainProc) =>
              /\ Cardinality(DOMAIN contacts) = Len(initial_contacts)
              /\ \A c \in DOMAIN contacts :
                    \E a \in DOMAIN activities :
                        /\ ActivityIdsOf(c) = {a}
                        /\ activities[a].description =
                              <<"Initial contact created via ",
                                contacts[c].status, " campaign.">>

\* mid-run: the fifth contact is committed, its activity is not yet
C10_Witness ==
    /\ nreq = 0
    /\ seeder[MainProc].pc = "loop"
    /\ Cardinality(DOMAIN contacts) = 5
    /\ Cardinality(DOMAIN activities) = 4
    /\ ActivityIdsOf(5) = {}
====
